---- MODULE Spec2Model ----
(***************************************************************************)
(* Evaluation of a segmentation network: evaluate() of evaluate.py, the    *)
(* Dice metric and loss it calls, and the evaluate_dataset command line.   *)
(*                                                                         *)
(* Numbers.  float32 values are fixed-point integers counted in steps of   *)
(* 1/Unit (10^-7, the resolution of float32 next to 1).  Mask labels are   *)
(* integers.  A logit x is represented by w = exp(x), so that              *)
(* sigmoid(x) = w/(1+w), softmax(x)[c] = w[c]/sum(w) and arg-max are       *)
(* computed exactly on the inputs the model draws.                         *)
(*                                                                         *)
(* Tensors.  A batch is a sequence of items, an item a sequence of pixels  *)
(* (an H x 1 image, H = Len(item)), a pixel a record [y, w]: the label of  *)
(* the ground-truth mask and the logits of the network at that position.   *)
(***************************************************************************)
EXTENDS Integers, Sequences, FiniteSets, TLC

\* ------------------------------------------------------------- bounds ---
\* Largest number of pixels held by one dataloader (batches x items x rows)
\* in a direct call of evaluate.
MaxPixels == 4

\* Largest number of pixels held by the three dataloaders of one
\* evaluate_dataset run together.
CliPixels == 2

\* ------------------------------------------------------------ numbers ---
Unit == 10^7

\* epsilon of dice_coeff, 1e-6
Epsilon == Unit \div 1000000

Abs(n) == IF n < 0 THEN -n ELSE n

RECURSIVE LongDiv(_, _, _)
\* digits of r/d below the point, r < d, one decimal digit per step
LongDiv(r, d, scale) ==
    IF scale = 1 THEN 0
    ELSE LET s == scale \div 10
         IN  ((r * 10) \div d) * s + LongDiv((r * 10) % d, d, s)

\* Largest magnitude represented; a quotient beyond it saturates (it arises
\* only in the loss of a mask with a negative label, whose iteration raises).
FixMax == 200 * Unit

\* the float quotient n / d as a fixed-point number, truncated
FixDiv(n, d) ==
    LET q == IF Abs(n) \div Abs(d) >= FixMax \div Unit THEN FixMax
             ELSE (Abs(n) \div Abs(d)) * Unit
                    + LongDiv(Abs(n) % Abs(d), Abs(d), Unit)
    IN  IF (n < 0) = (d < 0) THEN q ELSE -q

RECURSIVE SumSeq(_)
SumSeq(s) == IF s = <<>> THEN 0 ELSE Head(s) + SumSeq(Tail(s))

\* mean of a sequence of fixed-point numbers (tensor.mean())
Mean(s) == SumSeq(s) \div Len(s)

\* ------------------------------------------------- utils/dice_score.py ---
\* Value tensors are sequences (items) of sequences (pixels) of fixed-point
\* numbers; target tensors hold integers (a mask converted with .float()).

\* sum(pred * target), sum(pred) + sum(target) of one item
Inter(p, t) == SumSeq([k \in 1..Len(p) |-> p[k] * t[k]])
SetsSum(p, t) == SumSeq(p) + SumSeq(t) * Unit

\* dice = (2*intersection + eps) / (sum(pred) + sum(target) + eps)
DiceRatio(inter, sets) == FixDiv(2 * inter + Epsilon, sets + Epsilon)

dice_coeff(input, target, reduce_batch_first) ==
    IF reduce_batch_first
    THEN DiceRatio(SumSeq([b \in 1..Len(input) |-> Inter(input[b], target[b])]),
                   SumSeq([b \in 1..Len(input) |-> SetsSum(input[b], target[b])]))
    ELSE Mean([b \in 1..Len(input) |->
                 DiceRatio(Inter(input[b], target[b]), SetsSum(input[b], target[b]))])

\* input, target: sequences of channels, each a tensor as above
multiclass_dice_coeff(input, target, reduce_batch_first) ==
    Mean([c \in 1..Len(input) |-> dice_coeff(input[c], target[c], reduce_batch_first)])

dice_loss(input, target, multiclass) ==
    IF multiclass
    THEN Unit - multiclass_dice_coeff(input, target, TRUE)
    ELSE Unit - dice_coeff(input, target, TRUE)


\* --------------------------------------------------- program constants ---
\* --classes default: the multiclass configuration of the model
DefaultClasses == 2

\* n_classes of the model: single-class (evaluate.py line 31) or --classes
ClassCounts == {1, DefaultClasses}

\* ------------------------------------------------------------- inputs ---
\* Labels a mask file can hold: the valid range and one value on each side.
MaxLabel(n) == IF n = 1 THEN 1 ELSE n - 1
LabelValues(n) == -1 .. (MaxLabel(n) + 1)

\* Logits of one pixel, one per class, as w = exp(logit).
Logits(n) ==
    IF n = 1 THEN {<<1>>, <<2>>}
    ELSE {[c \in 1..n |-> IF c = k THEN 2 ELSE 1] : k \in 1..n}

Pixels(n) == [y : LabelValues(n), w : Logits(n)]

\* Number of dimensions of the network's output: [B, C, H, W], or [B, H, W]
\* from a single-class network that returns no channel dimension.
OutDims(n) == IF n = 1 THEN {3, 4} ELSE {4}

\* The batches a dataloader of `items` images of `rows` pixels can yield,
\* each with the output of the network on it; at most one pixel of a batch
\* holds a label outside the valid range.
Batches(n, items, rows) ==
    {b \in [x : [1..items -> [1..rows -> Pixels(n)]], outdims : OutDims(n)] :
        Cardinality({p \in (1..items) \X (1..rows) :
                        b.x[p[1]][p[2]].y \notin 0..MaxLabel(n)}) <= 1}

\* Values of the criterion (BCEWithLogitsLoss, CrossEntropyLoss) on a batch.
CriterionValues == {0, Unit \div 2}

\* A dataloader: len(dataloader), batch size, image height.
Loaders(budget) ==
    {l \in [len : 0..budget, bsz : 1..budget, rows : 1..budget] :
        /\ l.len * l.bsz * l.rows <= budget
        /\ l.len = 0 => (l.bsz = 1 /\ l.rows = 1)}

\* ------------------------------------------------------ tensor algebra ---
MaskShape(b) == <<Len(b.x), Len(b.x[1]), 1>>
PredShape(b, n) ==
    IF b.outdims = 4 THEN <<Len(b.x), n, Len(b.x[1]), 1>>
    ELSE <<Len(b.x), Len(b.x[1]), 1>>

\* tensor.squeeze(1): drops dimension 1 when its size is 1
Squeeze1(shape) ==
    IF shape[2] = 1
    THEN [k \in 1..(Len(shape) - 1) |-> IF k < 2 THEN shape[k] ELSE shape[k + 1]]
    ELSE shape

\* mask_true, as integers, and mask_true.min(), mask_true.max()
MaskTrue(b) == [i \in 1..Len(b.x) |-> [k \in 1..Len(b.x[i]) |-> b.x[i][k].y]]
MaskValues(b) == {b.x[i][k].y : i \in 1..Len(b.x), k \in 1..Len(b.x[1])}
MaskMin(b) == CHOOSE v \in MaskValues(b) : \A u \in MaskValues(b) : v <= u
MaskMax(b) == CHOOSE v \in MaskValues(b) : \A u \in MaskValues(b) : v >= u

Sigmoid(w) == FixDiv(w, 1 + w)
Softmax(w, c) == FixDiv(w[c], SumSeq(w))
\* index (from 0) of the first largest logit
Argmax(w) ==
    (CHOOSE c \in 1..Len(w) :
        /\ \A d \in 1..Len(w) : w[d] <= w[c]
        /\ \A d \in 1..(c - 1) : w[d] < w[c]) - 1

\* a threshold that lets 0.5 itself through
Threshold_geq(p) == IF p >= Unit \div 2 THEN Unit ELSE 0

\* (F.sigmoid(mask_pred) > 0.5).float()
Threshold(p) == IF p > Unit \div 2 THEN Unit ELSE 0

PixelMap(b, f(_)) == [i \in 1..Len(b.x) |-> [k \in 1..Len(b.x[i]) |-> f(b.x[i][k])]]

\* F.sigmoid(mask_pred.squeeze(1)) and the thresholded prediction
SigmoidPred(b) == LET f(px) == Sigmoid(px.w[1]) IN PixelMap(b, f)
HardPred(b) == LET f(px) == Threshold(Sigmoid(px.w[1])) IN PixelMap(b, f)

\* F.softmax(mask_pred, dim=1): channel c + 1 of the sequence is class c
SoftmaxPred(b, n) ==
    [c \in 1..n |-> LET f(px) == Softmax(px.w, c) IN PixelMap(b, f)]
\* F.one_hot(mask_true, n).permute(0, 3, 1, 2)
OneHotTrue(b, n) ==
    [c \in 1..n |-> LET f(px) == IF px.y = c - 1 THEN 1 ELSE 0 IN PixelMap(b, f)]
\* F.one_hot(mask_pred.argmax(dim=1), n).permute(0, 3, 1, 2).float()
OneHotPred(b, n) ==
    [c \in 1..n |-> LET f(px) == IF Argmax(px.w) = c - 1 THEN Unit ELSE 0
                    IN  PixelMap(b, f)]

\* the slice forgotten: the background channel is scored too
Foreground_all(t) == t

\* t[:, 1:]: every channel but the background
Foreground(t) == Tail(t)


\* -------------------------------------------------------------- state ---
VARIABLES
    training,         \* net.training: TRUE after net.train(), FALSE after net.eval()
    grad,             \* gradient tracking enabled (off inside torch.inference_mode)
    n_classes,        \* net.n_classes
    dataloader,       \* the dataloader evaluate iterates
    epc,              \* evaluate: "idle", "call", "loop", "returned", "raised"
    num_val_batches,  \* evaluate's local
    seen,             \* batches the for loop has fetched
    dice_score,       \* evaluate's running sum of Dice scores
    loss_total,       \* evaluate's running sum of losses
    batch,            \* <<b>>: mask_true and mask_pred of the last iteration whose
                      \* forward pass returned, <<>> before
    hist,             \* per completed iteration: the Dice score and the loss it
                      \* added, and the criterion's share of that loss
    ret,              \* <<v>>: the value evaluate returned, <<>> before
    err,              \* the error that was raised, "none" before
    fwd,              \* modes under which net(image) was called in evaluate
    mode0,            \* net.training when evaluate was called
    pc,               \* evaluate_dataset: the statement to run next
    default,          \* args.default
    todo,             \* datasets still to construct
    kinds,            \* class of each constructed dataset
    attempt,          \* <<r>>: what the last dataset construction did
    loaders,          \* train_loader, val_loader, test_loader
    cur,              \* number of the evaluate call in progress (1..3)
    scores,           \* train_score, val_score, test_score as assigned so far
    csv,              \* <<rows>> once results/scores.csv is written
    raised,           \* errors raised so far in the run
    caught,           \* errors caught by an except clause so far
    qual              \* modes under which qualitative_results called the model

evalVars == <<training, grad, n_classes, dataloader, epc, num_val_batches, seen,
              dice_score, loss_total, batch, hist, ret, err, fwd, mode0>>
evalVarsButErr == <<training, grad, n_classes, dataloader, epc, num_val_batches,
                    seen, dice_score, loss_total, batch, hist, ret, fwd, mode0>>
cliVars == <<pc, default, todo, kinds, attempt, loaders, cur, scores, csv,
             raised, caught, qual>>
vars == <<evalVars, cliVars>>

\* Python values the command line tells apart
PyTuple(a, b) == [type |-> "tuple", v |-> <<a, b>>]

\* ------------------------------------------------ evaluate, per batch ---
\* net.eval() that leaves the model training
EvalMode_train == TRUE

\* net.eval() / net.train()
EvalMode == FALSE
TrainMode == TRUE

\* the mode at the call put back
ModeOnReturn_restore(before) == before

\* the mode net.train() at line 58 leaves, given the mode at the call
ModeOnReturn(before) == TrainMode

\* = written for +=
Accumulate_overwrite(total, x) == x

\* x += y on a running sum
Accumulate(total, x) == total + x

\* the guard against an empty dataloader left out
Divisor_unguarded(n) == n

\* max(num_val_batches, 1)
Divisor(n) == IF n > 1 THEN n ELSE 1

\* criterion(...) raises: BCEWithLogitsLoss on a target whose size differs
\* from the input's, CrossEntropyLoss on a class index outside [0, n)
CriterionError(b, n) ==
    IF n = 1
    THEN IF Squeeze1(PredShape(b, n)) # MaskShape(b) THEN "ValueError" ELSE "none"
    ELSE IF MaskMin(b) < 0 \/ MaskMax(b) >= n THEN "IndexError" ELSE "none"

\* loss = criterion(...); loss += dice_loss(...)
BatchLoss(b, c, n) ==
    IF n = 1
    THEN c + dice_loss(SigmoidPred(b), MaskTrue(b), FALSE)
    ELSE c + dice_loss(SoftmaxPred(b, n), OneHotTrue(b, n), TRUE)

\* the upper end of the range not checked
BinaryLabelsOk_loose(mn, mx) == mn >= 0

\* the asserts on the label range
BinaryLabelsOk(mn, mx) == mn >= 0 /\ mx <= 1
ClassLabelsOk(mn, mx, n) == mn >= 0 /\ mx < n
LabelsOk(b, n) ==
    IF n = 1 THEN BinaryLabelsOk(MaskMin(b), MaskMax(b))
    ELSE ClassLabelsOk(MaskMin(b), MaskMax(b), n)

\* dice_coeff's check that prediction and target have one shape: line 49
\* passes the prediction with its channel dimension
ScoreShapesOk(b, n) == n > 1 \/ PredShape(b, n) = MaskShape(b)

\* the Dice score the iteration adds
BatchScore(b, n) ==
    IF n = 1
    THEN dice_coeff(HardPred(b), MaskTrue(b), FALSE)
    ELSE multiclass_dice_coeff(Foreground(OneHotPred(b, n)),
                               Foreground(OneHotTrue(b, n)), FALSE)

\* the batches the loop can fetch next (every batch is full)
NextBatches == Batches(n_classes, dataloader.bsz, dataloader.rows)

\* ------------------------------------------------------------ evaluate ---
\* lines 10-20: inference_mode entered, net.eval(), the locals set up
EvaluateEnter ==
    /\ epc = "call"
    /\ mode0' = training
    /\ grad' = FALSE
    /\ training' = EvalMode
    /\ num_val_batches' = dataloader.len
    /\ dice_score' = 0
    /\ loss_total' = 0
    /\ seen' = 0
    /\ batch' = <<>>
    /\ hist' = <<>>
    /\ ret' = <<>>
    /\ fwd' = {}
    /\ epc' = "loop"
    /\ UNCHANGED <<n_classes, dataloader, err, cliVars>>

\* lines 21-56, an iteration that raises nothing
EvaluateBatch ==
    /\ epc = "loop"
    /\ seen < dataloader.len
    /\ \E b \in NextBatches, c \in CriterionValues :
          /\ CriterionError(b, n_classes) = "none"
          /\ LabelsOk(b, n_classes)
          /\ ScoreShapesOk(b, n_classes)
          /\ batch' = <<b>>
          /\ loss_total' = Accumulate(loss_total, BatchLoss(b, c, n_classes))
          /\ dice_score' = Accumulate(dice_score, BatchScore(b, n_classes))
          /\ hist' = Append(hist, [dice |-> BatchScore(b, n_classes),
                                   loss |-> BatchLoss(b, c, n_classes),
                                   crit |-> c])
    /\ seen' = seen + 1
    /\ fwd' = fwd \cup {[training |-> training, grad |-> grad]}
    /\ UNCHANGED <<training, grad, n_classes, dataloader, epc, num_val_batches,
                   ret, err, mode0, cliVars>>

\* the exception leaves evaluate: inference_mode is left, nothing else runs
Raise(kind) ==
    /\ err' = kind
    /\ epc' = "raised"
    /\ grad' = TRUE
    /\ seen' = seen + 1
    /\ fwd' = fwd \cup {[training |-> training, grad |-> grad]}
    /\ raised' = raised + 1
    /\ UNCHANGED <<training, n_classes, dataloader, num_val_batches, hist, ret,
                   mode0, pc, default, todo, kinds, attempt, loaders, cur,
                   scores, csv, caught, qual>>

\* lines 21-56, an iteration that raises
EvaluateRaise ==
    /\ epc = "loop"
    /\ seen < dataloader.len
    /\ \E b \in NextBatches, c \in CriterionValues :
          \/ \* line 29: the forward pass fails
             /\ Raise("ForwardError")
             /\ UNCHANGED <<dice_score, loss_total, batch>>
          \/ /\ batch' = <<b>>
             /\ \/ \* lines 32, 36: the criterion rejects its arguments
                   /\ CriterionError(b, n_classes) # "none"
                   /\ Raise(CriterionError(b, n_classes))
                   /\ UNCHANGED <<dice_score, loss_total>>
                \/ \* lines 46, 51: the label range assertion fails
                   /\ CriterionError(b, n_classes) = "none"
                   /\ ~LabelsOk(b, n_classes)
                   /\ loss_total' = Accumulate(loss_total, BatchLoss(b, c, n_classes))
                   /\ Raise("AssertionError")
                   /\ UNCHANGED dice_score
                \/ \* line 49: dice_coeff rejects the shapes
                   /\ CriterionError(b, n_classes) = "none"
                   /\ LabelsOk(b, n_classes)
                   /\ ~ScoreShapesOk(b, n_classes)
                   /\ loss_total' = Accumulate(loss_total, BatchLoss(b, c, n_classes))
                   /\ Raise("AssertionError")
                   /\ UNCHANGED dice_score

\* lines 58-59 after the loop: net.train(), the two means
EvaluateReturn ==
    /\ epc = "loop"
    /\ seen = dataloader.len
    /\ training' = ModeOnReturn(mode0)
    /\ grad' = TRUE
    /\ IF Divisor(num_val_batches) = 0
       THEN /\ err' = "ZeroDivisionError"
            /\ epc' = "raised"
            /\ raised' = raised + 1
            /\ ret' = ret
       ELSE /\ ret' = <<PyTuple(dice_score \div Divisor(num_val_batches),
                               loss_total \div Divisor(num_val_batches))>>
            /\ epc' = "returned"
            /\ UNCHANGED <<err, raised>>
    /\ UNCHANGED <<n_classes, dataloader, num_val_batches, seen, dice_score,
                   loss_total, batch, hist, fwd, mode0, pc, default, todo, kinds,
                   attempt, loaders, cur, scores, csv, caught, qual>>

\* ---------------------------------------- a validation round in training ---
\* evaluate(net, dataloader, device, amp) called on a model and a dataloader
CliIdle ==
    /\ pc = "none"
    /\ default = FALSE
    /\ todo = <<>>
    /\ kinds = <<>>
    /\ attempt = <<>>
    /\ loaders = <<>>
    /\ cur = 0
    /\ scores = <<>>
    /\ csv = <<>>
    /\ raised = 0
    /\ caught = 0
    /\ qual = {}

EvalIdle ==
    /\ grad = TRUE
    /\ num_val_batches = 0
    /\ seen = 0
    /\ dice_score = 0
    /\ loss_total = 0
    /\ batch = <<>>
    /\ hist = <<>>
    /\ ret = <<>>
    /\ err = "none"
    /\ fwd = {}

Init ==
    /\ training \in BOOLEAN
    /\ mode0 = training
    /\ n_classes \in ClassCounts
    /\ dataloader \in Loaders(MaxPixels)
    /\ epc = "call"
    /\ EvalIdle
    /\ CliIdle

Next == EvaluateEnter \/ EvaluateBatch \/ EvaluateRaise \/ EvaluateReturn

Spec == Init /\ [][Next]_vars


\* ---------------------------------------------------- evaluate_dataset ---
\* dir_img, dir_mask, dir_train_img, ... (lines 20-27)
Dirs(name) ==
    CASE name = "data"  -> <<"./data/imgs/", "./data/masks/">>
      [] name = "train" -> <<"./data/train/imgs/", "./data/train/masks/">>
      [] name = "val"   -> <<"./data/val/imgs/", "./data/val/masks/">>
      [] name = "test"  -> <<"./data/test/imgs/", "./data/test/masks/">>

\* the directories each except clause hands to BasicDataset
FallbackDirs(name) == Dirs(name)

\* an except clause that misses IndexError
CaughtErrors_noIndex == {"AssertionError", "RuntimeError"}

\* except (AssertionError, RuntimeError, IndexError)
CaughtErrors == {"AssertionError", "RuntimeError", "IndexError"}

\* what a dataset constructor can do
CarvanaOutcomes == {"ok", "AssertionError", "RuntimeError", "IndexError",
                    "FileNotFoundError"}
BasicOutcomes == {"ok", "RuntimeError"}

\* datasets the run constructs, in order
Datasets(dflt) == IF dflt THEN <<"data">> ELSE <<"train", "val", "test">>

\* an uncaught exception ends the run
Crash(kind) ==
    /\ pc' = "crashed"
    /\ err' = kind
    /\ raised' = raised + 1

\* lines 64-77: arguments, model, weights, net.eval()
CliLoad ==
    /\ pc = "load"
    /\ \E loaded \in BOOLEAN :
          IF loaded
          THEN /\ training' = EvalMode
               /\ pc' = "build"
               /\ todo' = Datasets(default)
               /\ UNCHANGED <<err, raised>>
          ELSE /\ Crash("FileNotFoundError")
               /\ UNCHANGED <<training, todo>>
    /\ UNCHANGED <<grad, n_classes, dataloader, epc, num_val_batches, seen,
                   dice_score, loss_total, batch, hist, ret, fwd, mode0, default,
                   kinds, attempt, loaders, cur, scores, csv, caught, qual>>

\* lines 79-104: one try / except statement constructing a dataset
CliBuild ==
    /\ pc = "build"
    /\ todo # <<>>
    /\ LET name == Head(todo)
           done(class, dirs) ==
               /\ kinds' = Append(kinds, [name |-> name, class |-> class, dirs |-> dirs])
               /\ todo' = Tail(todo)
               /\ pc' = IF Tail(todo) = <<>> THEN "loaders" ELSE "build"
               /\ err' = err
       IN  \E first \in CarvanaOutcomes :
             IF first = "ok"
             THEN /\ done("CarvanaDataset", Dirs(name))
                  /\ attempt' = <<[name |-> name, first |-> first, second |-> "-",
                                   dirs |-> Dirs(name)]>>
                  /\ UNCHANGED <<raised, caught>>
             ELSE IF first \in CaughtErrors
             THEN \E second \in BasicOutcomes :
                    /\ attempt' = <<[name |-> name, first |-> first,
                                     second |-> second, dirs |-> FallbackDirs(name)]>>
                    /\ caught' = caught + 1
                    /\ IF second = "ok"
                       THEN /\ done("BasicDataset", FallbackDirs(name))
                            /\ raised' = raised + 1
                       ELSE /\ pc' = "crashed"
                            /\ err' = second
                            /\ raised' = raised + 2
                            /\ UNCHANGED <<kinds, todo>>
             ELSE /\ Crash(first)
                  /\ attempt' = <<[name |-> name, first |-> first, second |-> "-",
                                   dirs |-> Dirs(name)]>>
                  /\ UNCHANGED <<kinds, todo, caught>>
    /\ UNCHANGED <<evalVarsButErr, default, loaders, cur, scores, csv, qual>>

\* lines 85-89 and 106-114: the split, the three DataLoaders (one batch size)
CliLoaders ==
    /\ pc = "loaders"
    /\ \E tr \in Loaders(CliPixels), va \in Loaders(CliPixels), te \in Loaders(CliPixels) :
          /\ tr.len * tr.bsz * tr.rows + va.len * va.bsz * va.rows
               + te.len * te.bsz * te.rows <= CliPixels
          /\ default => te = va
          /\ loaders' = <<tr, va, te>>
    /\ attempt' = <<>>
    /\ cur' = 1
    /\ pc' = "call"
    /\ UNCHANGED <<evalVars, default, todo, kinds, scores, csv, raised, caught, qual>>

\* lines 116-118: the next evaluate(net, loader, device, args.amp) is called
CliCall ==
    /\ pc = "call"
    /\ dataloader' = loaders[cur]
    /\ epc' = "call"
    /\ pc' = "wait"
    /\ UNCHANGED <<training, grad, n_classes, num_val_batches, seen, dice_score,
                   loss_total, batch, hist, ret, err, fwd, mode0, default, todo,
                   kinds, attempt, loaders, cur, scores, csv, raised, caught, qual>>

\* lines 116-118: the value evaluate returned is assigned
CliAssign ==
    /\ pc = "wait"
    /\ epc = "returned"
    /\ scores' = Append(scores, ret[1])
    /\ epc' = "idle"
    /\ batch' = <<>>
    /\ hist' = <<>>
    /\ IF cur = 3
       THEN pc' = "report" /\ cur' = cur
       ELSE pc' = "call" /\ cur' = cur + 1
    /\ UNCHANGED <<training, grad, n_classes, dataloader, num_val_batches, seen,
                   dice_score, loss_total, ret, err, fwd, mode0, default, todo,
                   kinds, attempt, loaders, csv, raised, caught, qual>>

\* an error raised inside evaluate leaves the script
CliAbort ==
    /\ pc = "wait"
    /\ epc = "raised"
    /\ pc' = "crashed"
    /\ UNCHANGED <<evalVars, default, todo, kinds, attempt, loaders, cur, scores,
                   csv, raised, caught, qual>>

\* f'{x:.4f}' formats a number; a tuple raises TypeError
Formattable(x) == x.type = "float"

\* lines 120-156: the scores are printed, scores.csv is written, the three
\* calls of qualitative_results run the model
CliReport ==
    /\ pc = "report"
    /\ IF \A k \in 1..3 : Formattable(scores[k])
       THEN /\ csv' = << <<<<"Dataset", "Score">>,
                           <<"Training", scores[1].v>>,
                           <<"Validation", scores[2].v>>,
                           <<"Test", scores[3].v>>>> >>
            /\ qual' = qual \cup {[training |-> training, grad |-> grad]}
            /\ pc' = "done"
            /\ UNCHANGED <<err, raised>>
       ELSE /\ Crash("TypeError")
            /\ UNCHANGED <<csv, qual>>
    /\ UNCHANGED <<evalVarsButErr, default, todo, kinds, attempt, loaders, cur,
                   scores, caught>>

InitCli ==
    /\ training = TrainMode
    /\ mode0 = TrainMode
    /\ n_classes \in ClassCounts
    /\ dataloader = [len |-> 0, bsz |-> 1, rows |-> 1]
    /\ epc = "idle"
    /\ EvalIdle
    /\ pc = "load"
    /\ default \in BOOLEAN
    /\ todo = <<>>
    /\ kinds = <<>>
    /\ attempt = <<>>
    /\ loaders = <<>>
    /\ cur = 0
    /\ scores = <<>>
    /\ csv = <<>>
    /\ raised = 0
    /\ caught = 0
    /\ qual = {}

NextCli ==
    \/ CliLoad \/ CliBuild \/ CliLoaders \/ CliCall \/ CliAssign \/ CliAbort
    \/ CliReport
    \/ EvaluateEnter \/ EvaluateBatch \/ EvaluateRaise \/ EvaluateReturn

SpecCli == InitCli /\ [][NextCli]_vars


\* ------------------------------------------------------------- claims ---
Last(q) == q[Len(q)]
Finished == epc \in {"returned", "raised"}
\* the last iteration ran to its end on the batch in `batch`
Scored == epc \in {"loop", "returned"} /\ batch # <<>>
Positions(b) == (1..Len(b.x)) \X (1..Len(b.x[1]))
At(b, p) == b.x[p[1]][p[2]]

\* C1: a call of evaluate that starts with the model in training mode leaves
\* it in training mode on every exit path, a raised error included.
C1_TrainingOnEveryExit == (mode0 /\ Finished) => training

\* C2: on a dataloader of zero batches evaluate returns normally, with a Dice
\* score of 0 and a loss of 0.
C2_EmptyReturnsZero ==
    (dataloader.len = 0 /\ epc \notin {"idle", "call", "loop"})
        => (epc = "returned" /\ err = "none" /\ ret = <<PyTuple(0, 0)>>)
C2_Witness == dataloader.len = 0 /\ epc = "returned"

\* C3: while evaluate runs, each running sum is the sum of what the batches
\* processed so far added, one entry per batch in iteration order; with
\* N >= 1 batches and no error it returns (S / N, L / N).
C3_SumDice == SumSeq([k \in 1..Len(hist) |-> hist[k].dice])
C3_SumLoss == SumSeq([k \in 1..Len(hist) |-> hist[k].loss])
C3_MeansOfSums ==
    /\ epc = "loop" =>
          (Len(hist) = seen /\ dice_score = C3_SumDice /\ loss_total = C3_SumLoss)
    /\ (epc = "returned" /\ num_val_batches >= 1) =>
          /\ Len(hist) = num_val_batches
          /\ ret = <<PyTuple(C3_SumDice \div num_val_batches,
                             C3_SumLoss \div num_val_batches)>>
C3_Witness ==
    /\ epc = "returned"
    /\ num_val_batches >= 2
    /\ hist[1].dice # hist[2].dice
    /\ hist[1].loss > 0

\* C4: a batch whose ground-truth mask holds a label outside the valid range
\* ([0, 1] for n_classes = 1, [0, n_classes) otherwise) makes evaluate raise at
\* that batch: the batch adds no score, no later batch is processed and
\* nothing is returned.
C4_BadLabel(b) ==
    \E p \in Positions(b) :
        IF n_classes = 1 THEN At(b, p).y \notin 0..1
        ELSE At(b, p).y \notin 0..(n_classes - 1)
C4_BadLabelAborts ==
    (epc # "idle" /\ batch # <<>> /\ C4_BadLabel(batch[1]))
        => (epc = "raised" /\ err # "none" /\ ret = <<>> /\ Len(hist) = seen - 1)
C4_Witness ==
    /\ batch # <<>>
    /\ C4_BadLabel(batch[1])
    /\ epc = "raised"
    /\ err = "AssertionError"
    /\ seen >= 2

\* C5: a run of the command line whose three evaluate calls returned writes
\* results/scores.csv: the header and the rows Training, Validation, Test,
\* each with that split's Dice score.
C5_ScoresCsvWritten ==
    (pc \in {"done", "crashed"} /\ Len(scores) = 3) =>
        /\ Len(csv) = 1
        /\ csv[1][1] = <<"Dataset", "Score">>
        /\ \A k \in 1..3 :
              /\ csv[1][k + 1][1] = <<"Training", "Validation", "Test">>[k]
              /\ csv[1][k + 1][2] = scores[k].v[1]

\* C6: a dataset whose format-specific loader fails with an assertion, runtime
\* or index error is constructed by the generic loader on the same
\* directories and the run goes on; any other error ends the run, and no
\* error is caught anywhere else.
C6_FallbackOnly ==
    /\ raised = caught + (IF pc = "crashed" \/ epc = "raised" THEN 1 ELSE 0)
    /\ epc = "raised" => pc \in {"wait", "crashed"}
    /\ caught = Cardinality({k \in 1..Len(kinds) : kinds[k].class = "BasicDataset"})
                  + (IF attempt # <<>> /\ attempt[1].second \notin {"-", "ok"}
                     THEN 1 ELSE 0)
    /\ attempt # <<>> =>
          LET a == attempt[1] IN
          /\ a.first \in {"AssertionError", "RuntimeError", "IndexError"} =>
                /\ a.second # "-"
                /\ a.dirs = Dirs(a.name)
                /\ a.second = "ok" =>
                      /\ pc # "crashed"
                      /\ Last(kinds) = [name |-> a.name, class |-> "BasicDataset",
                                        dirs |-> Dirs(a.name)]
                /\ a.second # "ok" => pc = "crashed"
          /\ a.first = "ok" => (pc # "crashed" /\ Last(kinds).class = "CarvanaDataset")
          /\ a.first \notin {"ok", "AssertionError", "RuntimeError", "IndexError"} =>
                pc = "crashed"
C6_Witness ==
    /\ pc = "loaders"
    /\ attempt # <<>>
    /\ attempt[1].name = "test"
    /\ attempt[1].first = "IndexError"
    /\ attempt[1].second = "ok"
    /\ Last(kinds).class = "BasicDataset"

\* C7 as claimed: a single-class batch whose thresholded prediction and
\* ground-truth mask do not overlap adds a Dice score of 0 within epsilon.
C7_Pred1(px) == px.w[1] > 1
C7_Disjoint(b) == \A p \in Positions(b) : ~(C7_Pred1(At(b, p)) /\ At(b, p).y = 1)
C7_EmptyItems(b) ==
    Cardinality({i \in 1..Len(b.x) :
        \A k \in 1..Len(b.x[i]) : ~C7_Pred1(b.x[i][k]) /\ b.x[i][k].y = 0})
C8_ForwardInEvalMode ==
    /\ \A f \in fwd : ~f.training /\ ~f.grad
    /\ epc = "loop" => (~training /\ ~grad)
    /\ (epc \in {"loop", "returned", "raised"} /\ training) =>
          (epc = "returned" /\ seen = num_val_batches)
C8_Witness == epc = "returned" /\ seen >= 2 /\ fwd # {} /\ mode0

\* C9: for n_classes > 1 the score a batch adds is the Dice of the arg-max
\* class against the ground truth over the classes 1..n_classes-1, averaged
\* per item and then over those classes; the Dice loss term of the batch is
\* 1 minus the mean over all n_classes classes of the Dice of the softmax
\* probabilities, summed over the whole batch.
C9_PredClass(px) == (CHOOSE c \in 1..Len(px.w) : \A d \in 1..Len(px.w) : px.w[d] <= px.w[c]) - 1
C9_Count(b, i, P(_)) == Cardinality({k \in 1..Len(b.x[i]) : P(b.x[i][k])})
C9_ItemDice(b, i, c) ==
    LET both(px) == px.y = c /\ C9_PredClass(px) = c
        pred(px) == C9_PredClass(px) = c
        true(px) == px.y = c
    IN  FixDiv(2 * C9_Count(b, i, both) * Unit + Epsilon,
               (C9_Count(b, i, pred) + C9_Count(b, i, true)) * Unit + Epsilon)
C9_ClassScore(b, c) ==
    SumSeq([i \in 1..Len(b.x) |-> C9_ItemDice(b, i, c)]) \div Len(b.x)
C9_Score(b) ==
    SumSeq([c \in 1..(n_classes - 1) |-> C9_ClassScore(b, c)]) \div (n_classes - 1)
C9_Prob(px, c) == FixDiv(px.w[c + 1], SumSeq(px.w))
C9_SoftDice(b, c) ==
    LET ps == [p \in Positions(b) |-> C9_Prob(At(b, p), c)]
        hit == {p \in Positions(b) : At(b, p).y = c}
        sum(f, S) == LET RECURSIVE go(_)
                         go(T) == IF T = {} THEN 0
                                  ELSE LET p == CHOOSE q \in T : TRUE
                                       IN  f[p] + go(T \ {p})
                     IN  go(S)
    IN  FixDiv(2 * sum(ps, hit) + Epsilon,
               sum(ps, Positions(b)) + Cardinality(hit) * Unit + Epsilon)
C9_DiceLoss(b) ==
    Unit - SumSeq([c \in 1..n_classes |-> C9_SoftDice(b, c - 1)]) \div n_classes
C9_ForegroundScore ==
    (n_classes > 1 /\ Scored) =>
        /\ Last(hist).dice = C9_Score(batch[1])
        /\ Last(hist).loss - Last(hist).crit = C9_DiceLoss(batch[1])
C9_Witness ==
    /\ n_classes > 1
    /\ Scored
    /\ Len(batch[1].x) = 2
    /\ \E p \in Positions(batch[1]) :
          At(batch[1], p).y = 0 /\ C9_PredClass(At(batch[1], p)) = 0
    /\ Last(hist).dice <= Epsilon

====
